---- MODULE Spec2Model ----
(***************************************************************************)
(* A model of fl's RobustGaussianFilter                                    *)
(* (include/fl/filter/gaussian/robust_gaussian_filter.hpp), of the         *)
(* particle filter exercised by test/particle_filter and of                *)
(* ComposedStationaryProcessModel                                          *)
(* (include/state_filtering/process_model).                                *)
(*                                                                         *)
(* States, inputs and observations are one-dimensional; fl::Real is the    *)
(* field of exact rationals <<numerator, denominator>>.  A vector carries  *)
(* its length next to its value, so a vector of the wrong size is a value  *)
(* the model can hold.                                                     *)
(***************************************************************************)
EXTENDS Integers, Sequences, FiniteSets, TLC

(***************************************************************************)
(* Bounds of the model.                                                    *)
(***************************************************************************)
\* Operations (calls of predict or update, changes of a model parameter) the
\* single-threaded program performs in one behaviour.
MaxOps == 3
\* Calls made in one behaviour when two threads call concurrently.
MaxThreadCalls == 2
\* How many times in a row a caller passes the output belief of a call as the
\* input belief of its next call.
MaxChain == 1
\* Particles of a particle belief (the test draws 10000).
NumParticles == 3
\* Calls of the particle filter's predict/update made in one behaviour.
MaxPfCalls == 3
\* Entries of the list of sub-models of a composed process model.
MaxList == 2
\* The largest size (of state, randoms or control) of one sub-model.
MaxSize == 2
\* Calls of a composed model's mapFromGaussian/conditionals in one behaviour.
MaxComposedCalls == 2
\* The raw observations are 0 and MaxObsrv (far from what the priors predict).
MaxObsrv == 3

(***************************************************************************)
(* fl::Real: exact rational arithmetic.                                    *)
(***************************************************************************)
Abs(x) == IF x < 0 THEN -x ELSE x

RECURSIVE Gcd(_, _)
Gcd(a, b) == IF b = 0 THEN a ELSE Gcd(b, a % b)

\* The rational n/d in lowest terms with a positive denominator (d # 0).
Rat(n, d) ==
    LET g == Gcd(Abs(n), Abs(d))
        s == IF d < 0 THEN -1 ELSE 1
    IN  <<(s * n) \div g, (s * d) \div g>>

RInt(n) == <<n, 1>>
\* Sums and comparisons go through the least common denominator.
RAdd(p, q) ==
    LET g == Gcd(p[2], q[2])
    IN  Rat(p[1] * (q[2] \div g) + q[1] * (p[2] \div g), p[2] * (q[2] \div g))
RNeg(p) == <<-p[1], p[2]>>
RSub(p, q) == RAdd(p, RNeg(q))
RMul(p, q) == Rat(p[1] * q[1], p[2] * q[2])
RDiv(p, q) == Rat(p[1] * q[2], p[2] * q[1])
RLess(p, q) ==
    LET g == Gcd(p[2], q[2])
    IN  p[1] * (q[2] \div g) < q[1] * (p[2] \div g)

(***************************************************************************)
(* Objects.  Model objects live in a store indexed by object identity:     *)
(* object Caller is the model instance the caller constructed and passed   *)
(* to the filters' constructors, object f is held by filter f.             *)
(***************************************************************************)
Filters == {1, 2}
Callers == {1, 2}
Caller == 0
Objects == {Caller} \cup Filters

\* A vector of the given length; the model computes with its first entry.
Vec(len, val) == [len |-> len, val |-> val]
Gaussian(mean, cov) == [mean |-> mean, cov |-> cov]

\* Gaussian<Obsrv>(dim): the standard Gaussian a distribution is constructed as.
StandardGaussian == Gaussian(RInt(0), RInt(1))

\* Input beliefs a caller may hold besides the output of its last call.
PriorBeliefs == {Gaussian(RInt(0), RInt(1)), Gaussian(RInt(1), RInt(2))}
Inputs == {1}
Obsrvs == {Vec(1, 0), Vec(1, MaxObsrv), Vec(2, 0)}

\* A process model [A, B, Q] is x' = A x + B u + v with cov(v) = Q.  An
\* observation model [H, R, dim, tail] is y = H x + w with cov(w) = R; dim is
\* the length of y and tail the weight of the heavy tail the robust feature
\* model mixes in (0: no tail).

VARIABLES
    processObj,   \* object -> the process model value it holds
    obsrvObj,     \* object -> the observation model value it holds
    featParams,   \* filter -> calibration parameters of its feature model
    target,       \* caller -> the filter instance the caller calls
    pc,           \* caller -> position inside the call in progress
    frame,        \* caller -> arguments and locals of the call in progress
    result,       \* caller -> outcome of the caller's last call
    ops,          \* number of operations performed so far
    touched,      \* filters whose models were changed through their accessors
    hist          \* caller -> what the last call observed (history variable)

rvars == <<processObj, obsrvObj, featParams, target, pc, frame, result, ops,
           touched, hist>>

VARIABLES
    particles,    \* the particle belief: a sequence of [x, w]
    pfStatus,     \* outcome of the last call of the particle filter
    pfCalls,      \* calls of the particle filter made so far
    pfLast        \* the last call and the belief it was given (history variable)

pvars == <<particles, pfStatus, pfCalls, pfLast>>

VARIABLES
    process_models_,  \* the composed model's list: a sequence of sub-models
    cond,             \* sub-model -> the conditionals it was last given
    cpc,              \* position of the composed model's call in progress
    cframe,           \* arguments, loop counter and offsets of that call
    cret,             \* what the last call returned, with its final offsets
    clog,             \* calls of sub-models' conditionals made by the last
                      \* conditionals call (history variable)
    cCalls            \* calls of the composed model made so far

cvars == <<process_models_, cond, cpc, cframe, cret, clog, cCalls>>
vars == <<rvars, pvars, cvars>>

(***************************************************************************)
(* What the constructor stores (robust_gaussian_filter.hpp:104-112, 214).  *)
(* gaussian_filter_ is a member held by value, built from the process      *)
(* model and from a temporary FeatureObsrvModel(obsrv_model): the filter   *)
(* holds its own model objects, and its own feature model.                 *)
(***************************************************************************)
ProcessModelOf(f) == f
\* (variant: the filter keeps a reference to the caller's instance)
EmbeddedObsrvModelAliased(f) == Caller
EmbeddedObsrvModelOf(f) == f
\* (variant: one feature model shared by every filter instance)
FeatureModelShared(f) == 1
FeatureModelOf(f) == f

\* RobustGaussianFilter::process_model() and obsrv_model().
process_model(f) == processObj[ProcessModelOf(f)]
obsrv_model(f) == obsrvObj[EmbeddedObsrvModelOf(f)]
\* The calibration parameters of robust_feature_obsrv_model().
feature_parameters(f) == featParams[FeatureModelOf(f)]

(***************************************************************************)
(* The wrapped engine, the quadrature and the feature model: their code is *)
(* not part of the sources at hand; they follow the design document.       *)
(***************************************************************************)
\* Squared distance, in body standard deviations, past which a raw
\* observation counts as surprising.
Gate2 == 4

\* Quadrature of y = H x + w under the belief: exact for an affine function.
IntegrateMoments(om, belief) ==
    Gaussian(RMul(RInt(om.H), belief.mean),
             RAdd(RMul(RInt(om.H * om.H), belief.cov), RInt(om.R)))

\* What RobustFeatureObsrvModel::parameters(body, mean) stores.
Params(body, mean) == [body |-> body, ref |-> mean]
\* The parameters a freshly constructed feature model holds.
InitialParams == Params(StandardGaussian, RInt(0))

Surprising(om, p, y) ==
    /\ om.tail # 0
    /\ LET d == RSub(RInt(y), p.body.mean)
       IN  RLess(RMul(RInt(Gate2), p.body.cov), RMul(d, d))

\* RobustFeatureObsrvModel::feature_obsrv: a surprising observation is
\* replaced by the body mean, any other one is kept; the length is kept.
FeatureObsrv(om, p, y) ==
    Vec(y.len, IF Surprising(om, p, y.val) THEN p.body.mean ELSE RInt(y.val))

\* The observation model the wrapped engine sees: the embedded function with
\* the noise covariance calibrated from the body distribution.
FeatureModel(om, p) ==
    [H |-> om.H, dim |-> om.dim,
     R |-> IF om.tail = 0 THEN RInt(om.R)
           ELSE RAdd(RInt(om.R), RMul(RInt(om.tail), p.body.cov))]
\* The observation model the unwrapped engine sees.
RawModel(om) == [H |-> om.H, dim |-> om.dim, R |-> RInt(om.R)]

Ok(belief) == [status |-> "ok", belief |-> belief]
DimensionMismatch(old) == [status |-> "DimensionMismatch", belief |-> old.belief]
NoBelief == Gaussian(<<0, 0>>, <<0, 0>>)
NoResult == [status |-> "none", belief |-> NoBelief]

\* GaussianFilter::predict, closed form.
GaussianPredict(pm, prior, u) ==
    Gaussian(RAdd(RMul(RInt(pm.A), prior.mean), RInt(pm.B * u)),
             RAdd(RMul(RInt(pm.A * pm.A), prior.cov), RInt(pm.Q)))

\* GaussianFilter::update: the Kalman correction; an observation whose length
\* is not the model's is rejected and the output belief left as it was.
GaussianUpdate(m, predicted, y, old) ==
    IF y.len # m.dim THEN DimensionMismatch(old)
    ELSE LET cross == RMul(predicted.cov, RInt(m.H))
             S     == RAdd(RMul(RInt(m.H * m.H), predicted.cov), m.R)
             K     == RDiv(cross, S)
             innov == RSub(y.val, RMul(RInt(m.H), predicted.mean))
         IN  Ok(Gaussian(RAdd(predicted.mean, RMul(K, innov)),
                         RSub(predicted.cov, RMul(K, cross))))

(***************************************************************************)
(* RobustGaussianFilter (robust_gaussian_filter.hpp).                      *)
(***************************************************************************)
NoFrame == [predicted |-> NoBelief, obsrv |-> Vec(0, 0),
            body |-> NoBelief, fobs |-> Vec(0, <<0, 0>>)]
NoHist == [op |-> "none", prior |-> NoBelief, arg |-> Vec(0, 0),
           pmodel |-> [A |-> 0, B |-> 0, Q |-> 0],
           model |-> [H |-> 0, R |-> 0, dim |-> 0, tail |-> 0],
           before |-> InitialParams, steps |-> <<>>,
           overlapped |-> FALSE, foreign |-> {}, chain |-> 0,
           refPrior |-> NoBelief, ref |-> NoResult]

\* The statements of update in program order: where control goes after the
\* statement at position p (lines 146-148, 150-152, 156, 154-157).
\* (variant: the observation is transformed before the parameters are set)
NextStepFeatureFirst(p) ==
    CASE p = "integrate"  -> "feature"
      [] p = "feature"    -> "parameters"
      [] p = "parameters" -> "delegate"
      [] p = "delegate"   -> "idle"
NextStep(p) ==
    CASE p = "integrate"  -> "parameters"
      [] p = "parameters" -> "feature"
      [] p = "feature"    -> "delegate"
      [] p = "delegate"   -> "idle"

\* predict (lines 122-127): the wrapped filter's predict on the same arguments.
RobustPredict(f, prior, u) == GaussianPredict(process_model(f), prior, u)
\* (variant: predict resets the calibration)
ParamsAfterPredictReset(f) == [featParams EXCEPT ![FeatureModelOf(f)] = InitialParams]
\* What predict leaves in the feature model: it does not touch it.
ParamsAfterPredict(f) == featParams

\* update, lines 138-148: body_distr, the moments of the embedded model's
\* observation function under the predicted belief.
UpdateIntegrate(f, predicted) == IntegrateMoments(obsrv_model(f), predicted)
\* (variant: the feature model is calibrated by the first update only)
UpdateParametersOnce(f, body, predicted) ==
    IF feature_parameters(f) = InitialParams
    THEN [featParams EXCEPT ![FeatureModelOf(f)] = Params(body, predicted.mean)]
    ELSE featParams
\* update, lines 150-152: parameters(body_distr, predicted_belief.mean()).
UpdateParameters(f, body, predicted) ==
    [featParams EXCEPT ![FeatureModelOf(f)] = Params(body, predicted.mean)]
\* (variant: the raw observation is passed on untransformed)
UpdateFeatureRaw(f, obsrv) == Vec(obsrv.len, RInt(obsrv.val))
\* update, line 156: gaussian_filter_.obsrv_model().feature_obsrv(obsrv).
UpdateFeature(f, obsrv) ==
    FeatureObsrv(obsrv_model(f), feature_parameters(f), obsrv)
\* (variant: the output belief is passed where the predicted belief belongs)
UpdateDelegateOnOutput(f, predicted, fobs, old) ==
    GaussianUpdate(FeatureModel(obsrv_model(f), feature_parameters(f)),
                   IF old.belief = NoBelief THEN StandardGaussian ELSE old.belief,
                   fobs, old)
\* update, lines 154-157: gaussian_filter_.update on the feature observation.
UpdateDelegate(f, predicted, fobs, old) ==
    GaussianUpdate(FeatureModel(obsrv_model(f), feature_parameters(f)),
                   predicted, fobs, old)

\* Caller c holds a belief written by an earlier call and can pass it on.
Chained(c) == result[c].belief # NoBelief /\ hist[c].chain < MaxChain
Busy(f) == \E c \in Callers : target[c] = f /\ pc[c] # "idle"
AllIdle == \A c \in Callers : pc[c] = "idle"

CallPredict(c, prior, u, fed) ==
    LET f == target[c] IN
    /\ pc[c] = "idle"
    /\ ops' = ops + 1
    /\ result' = [result EXCEPT ![c] = Ok(RobustPredict(f, prior, u))]
    /\ featParams' = ParamsAfterPredict(f)
    /\ hist' = [hist EXCEPT ![c] =
            LET rp == IF fed THEN hist[c].ref.belief ELSE prior IN
            [NoHist EXCEPT !.op = "predict", !.prior = prior, !.arg = Vec(1, u),
                           !.pmodel = process_model(f),
                           !.model = obsrv_model(f),
                           !.before = feature_parameters(f),
                           !.chain = IF fed THEN hist[c].chain + 1 ELSE 0,
                           !.refPrior = rp,
                           !.ref = Ok(GaussianPredict(process_model(f), rp, u))]]
    /\ UNCHANGED <<processObj, obsrvObj, target, pc, frame, touched>>

CallUpdate(c, predicted, obsrv, fed) ==
    LET f == target[c] IN
    /\ pc[c] = "idle"
    /\ ops' = ops + 1
    /\ pc' = [pc EXCEPT ![c] = "integrate"]
    /\ frame' = [frame EXCEPT ![c] =
            [NoFrame EXCEPT !.predicted = predicted, !.obsrv = obsrv]]
    /\ hist' = [hist EXCEPT ![c] =
            [NoHist EXCEPT !.op = "update", !.prior = predicted, !.arg = obsrv,
                           !.pmodel = process_model(f),
                           !.model = obsrv_model(f),
                           !.before = feature_parameters(f),
                           !.chain = IF fed THEN hist[c].chain + 1 ELSE 0,
                           !.refPrior = IF fed THEN hist[c].ref.belief
                                        ELSE predicted,
                           !.ref = hist[c].ref]]
    /\ UNCHANGED <<processObj, obsrvObj, featParams, target, result, touched>>

Integrate(c) ==
    /\ pc[c] = "integrate"
    /\ frame' = [frame EXCEPT ![c].body =
                    UpdateIntegrate(target[c], frame[c].predicted)]
    /\ pc' = [pc EXCEPT ![c] = NextStep("integrate")]
    /\ hist' = [hist EXCEPT ![c].steps = Append(@, "integrate")]
    /\ UNCHANGED <<processObj, obsrvObj, featParams, target, result, ops, touched>>

\* A call is exposed while it has set the parameters and still has to read them.
Exposed(d) == /\ pc[d] # "idle"
              /\ \E i \in DOMAIN hist[d].steps : hist[d].steps[i] = "parameters"

Parameters(c) ==
    /\ pc[c] = "parameters"
    /\ featParams' = UpdateParameters(target[c], frame[c].body, frame[c].predicted)
    /\ pc' = [pc EXCEPT ![c] = NextStep("parameters")]
    /\ hist' = [d \in Callers |->
            IF d = c THEN [hist[d] EXCEPT !.steps = Append(@, "parameters")]
            ELSE IF ~Exposed(d) THEN hist[d]
            ELSE [hist[d] EXCEPT
                    !.overlapped = TRUE,
                    !.foreign = IF featParams'[FeatureModelOf(target[d])]
                                     # featParams[FeatureModelOf(target[d])]
                                THEN @ \cup {featParams'[FeatureModelOf(target[d])]}
                                ELSE @]]
    /\ UNCHANGED <<processObj, obsrvObj, target, frame, result, ops, touched>>

Feature(c) ==
    /\ pc[c] = "feature"
    /\ frame' = [frame EXCEPT ![c].fobs = UpdateFeature(target[c], frame[c].obsrv)]
    /\ pc' = [pc EXCEPT ![c] = NextStep("feature")]
    /\ hist' = [hist EXCEPT ![c].steps = Append(@, "feature")]
    /\ UNCHANGED <<processObj, obsrvObj, featParams, target, result, ops, touched>>

Delegate(c) ==
    /\ pc[c] = "delegate"
    /\ result' = [result EXCEPT ![c] =
            UpdateDelegate(target[c], frame[c].predicted, frame[c].fobs, result[c])]
    /\ pc' = [pc EXCEPT ![c] = NextStep("delegate")]
    /\ frame' = [frame EXCEPT ![c] = NoFrame]
    /\ hist' = [hist EXCEPT ![c] =
            [@ EXCEPT !.steps = Append(@, "delegate"),
                      !.ref = GaussianUpdate(RawModel(obsrv_model(target[c])),
                                  hist[c].refPrior,
                                  Vec(hist[c].arg.len, RInt(hist[c].arg.val)),
                                  hist[c].ref)]]
    /\ UNCHANGED <<processObj, obsrvObj, featParams, target, ops, touched>>

\* The caller changes a parameter of the model instances it constructed.
CallerSetsParameter(v) ==
    /\ obsrvObj[Caller].H # v \/ processObj[Caller].A # v
    /\ ops' = ops + 1
    /\ obsrvObj' = [obsrvObj EXCEPT ![Caller].H = v]
    /\ processObj' = [processObj EXCEPT ![Caller].A = v]
    /\ UNCHANGED <<featParams, target, pc, frame, result, touched, hist>>

\* The caller changes a parameter through the references that the filter's
\* process_model() and obsrv_model() return (lines 168-176), between calls.
AccessorSetsParameter(f, v) ==
    /\ ~Busy(f)
    /\ obsrv_model(f).H # v \/ process_model(f).A # v
    /\ ops' = ops + 1
    /\ obsrvObj' = [obsrvObj EXCEPT ![EmbeddedObsrvModelOf(f)].H = v]
    /\ processObj' = [processObj EXCEPT ![ProcessModelOf(f)].A = v]
    /\ touched' = touched \cup {f}
    /\ UNCHANGED <<featParams, target, pc, frame, result, hist>>

\* The models the caller constructs and passes to the filters' constructors.
CallersObsrvModel(t) == [H |-> 1, R |-> 1, dim |-> 1, tail |-> t]
CallersProcessModel == [A |-> 1, B |-> 1, Q |-> 1]

\* After construction of the filters from the caller's models.
Constructed ==
    /\ \E t \in {0, 1} : obsrvObj = [o \in Objects |-> CallersObsrvModel(t)]
    /\ processObj = [o \in Objects |-> CallersProcessModel]
    /\ touched = {}
    /\ featParams = [f \in Filters |-> InitialParams]
    /\ pc = [c \in Callers |-> "idle"]
    /\ frame = [c \in Callers |-> NoFrame]
    /\ result = [c \in Callers |-> NoResult]
    /\ ops = 0
    /\ hist = [c \in Callers |-> NoHist]

(***************************************************************************)
(* The particle filter driven by test/particle_filter.  Its code is not    *)
(* part of the sources at hand; predict, update and resampling follow the  *)
(* design document.  Particle states are integers, weights are rationals.  *)
(***************************************************************************)
RECURSIVE SumWeights(_, _)
\* The sum of the weights of the first n particles.
SumWeights(ps, n) ==
    IF n = 0 THEN RInt(0) ELSE RAdd(SumWeights(ps, n - 1), ps[n].w)
Total(ps) == SumWeights(ps, Len(ps))

\* from_distribution(belief, N): N samples, each of weight 1/N.
FromSamples(xs) == [i \in DOMAIN xs |-> [x |-> xs[i], w |-> Rat(1, Len(xs))]]

\* The likelihood of observation y at particle state x: it falls with the
\* distance between y and H x and is numerically zero far away.
Likelihood(om, y, x) ==
    LET d == Abs(y - om.H * x)
    IN  CASE d = 0 -> 4 [] d = 1 -> 1 [] OTHER -> 0

\* predict: every particle is propagated with its own noise sample.
Propagate(pm, ps, u, noise) ==
    [i \in DOMAIN ps |->
        [x |-> pm.A * ps[i].x + pm.B * u + noise[i], w |-> ps[i].w]]

\* update: every weight is multiplied by the likelihood of the observation.
Reweight(om, ps, y) ==
    [i \in DOMAIN ps |->
        [x |-> ps[i].x, w |-> RMul(ps[i].w, RInt(Likelihood(om, y, ps[i].x)))]]
\* (variant: the weights are left unnormalized)
NormalizeSkipped(ps) == ps
\* update: the weights are divided by their sum.
Normalize(ps) ==
    LET total == Total(ps)
    IN  [i \in DOMAIN ps |-> [x |-> ps[i].x, w |-> RDiv(ps[i].w, total)]]

\* The effective sample size 1 / sum(w^2) is below half the particle count.
NeedsResampling(ps) ==
    LET sq == [i \in DOMAIN ps |-> [x |-> ps[i].x, w |-> RMul(ps[i].w, ps[i].w)]]
    IN  RLess(RInt(2), RMul(RInt(Len(ps)), Total(sq)))

\* The particle that covers position pos of the cumulative weights.
Pick(ps, pos) ==
    CHOOSE j \in DOMAIN ps :
        /\ RLess(pos, SumWeights(ps, j))
        /\ \A k \in 1..(j - 1) : ~RLess(pos, SumWeights(ps, k))
\* Systematic resampling from offset u0 in [0, 1/N): one draw per stratum,
\* every new weight 1/N.
Resample(ps, u0) ==
    [k \in DOMAIN ps |->
        [x |-> ps[Pick(ps, RAdd(u0, Rat(k - 1, Len(ps))))].x,
         w |-> Rat(1, Len(ps))]]
Offsets(n) == {RInt(0), Rat(1, 2 * n)}

Degenerate(om, ps, y) == Total(Reweight(om, ps, y)) = RInt(0)
\* ParticleFilter::update on a non-degenerate likelihood.
ParticleUpdate(om, ps, y, u0) ==
    LET n == Normalize(Reweight(om, ps, y))
    IN  IF NeedsResampling(n) THEN Resample(n, u0) ELSE n

\* particle_filter.predict(particle_belief, Input::Zero(), particle_belief)
PfPredict(noise) ==
    /\ pfCalls < MaxPfCalls
    /\ pfCalls' = pfCalls + 1
    /\ particles' = Propagate(CallersProcessModel, particles, 0, noise)
    /\ pfStatus' = "ok"
    /\ pfLast' = [op |-> "predict", before |-> particles, resampled |-> FALSE]

\* particle_filter.update(particle_belief, observation, particle_belief);
\* the offset u0 is drawn only when the update resamples.
PfUpdate(y, u0) ==
    /\ pfCalls < MaxPfCalls
    /\ pfCalls' = pfCalls + 1
    /\ IF Degenerate(CallersObsrvModel(0), particles, y)
       THEN /\ u0 = RInt(0)
            /\ particles' = particles
            /\ pfStatus' = "ParticleDegeneracy"
            /\ pfLast' = [op |-> "update", before |-> particles,
                          resampled |-> FALSE]
       ELSE LET rs == NeedsResampling(
                         Normalize(Reweight(CallersObsrvModel(0), particles, y)))
            IN  /\ rs \/ u0 = RInt(0)
                /\ particles' = ParticleUpdate(CallersObsrvModel(0), particles, y, u0)
                /\ pfStatus' = "ok"
                /\ pfLast' = [op |-> "update", before |-> particles,
                              resampled |-> rs]

\* particle_belief.from_distribution(gaussian_belief, N_particles)
PfInit ==
    /\ \E xs \in [1..NumParticles -> {0, 1}] : particles = FromSamples(xs)
    /\ pfStatus = "ok"
    /\ pfCalls = 0
    /\ pfLast = [op |-> "none", before |-> <<>>, resampled |-> FALSE]
\* The belief the test fixture holds before a test body runs.
PfIdle ==
    /\ particles = FromSamples([i \in 1..NumParticles |-> 0])
    /\ pfStatus = "ok"
    /\ pfCalls = 0
    /\ pfLast = [op |-> "none", before |-> <<>>, resampled |-> FALSE]

PfNext ==
    \/ \E noise \in [1..NumParticles -> {0, 1}] : PfPredict(noise)
    \/ \E y \in {0, MaxObsrv - 1}, u0 \in Offsets(NumParticles) : PfUpdate(y, u0)

(***************************************************************************)
(* ComposedStationaryProcessModel (composed_stationary_process_model.hpp). *)
(* The sub-models are objects behind shared pointers: an object may appear *)
(* in the list more than once.  Vectors are sequences; Eigen's middleRows  *)
(* counts rows from 0.                                                     *)
(***************************************************************************)
\* The sub-model objects there are, and the sizes each one reports.
SubModels == {1, 2, 3}
SubVariableSize(m) == CASE m = 1 -> 1 [] m = 2 -> MaxSize [] m = 3 -> 0
SubRandomsSize(m) == CASE m = 1 -> MaxSize [] m = 2 -> 1 [] m = 3 -> 0
SubControlSize(m) == CASE m = 1 -> 0 [] m = 2 -> 1 [] m = 3 -> MaxSize

NotConditioned == [delta_time |-> 0, state |-> <<>>, control |-> <<>>]
\* A sub-model's mapFromGaussian: variableSize() entries, each a function
\* of the entry's row, of the randoms given and of the sub-model's conditionals.
SubMapFromGaussian(m, c, randoms) ==
    [k \in 1..SubVariableSize(m) |->
        [model |-> m, row |-> k, randoms |-> randoms, given |-> c]]

\* v.middleRows(start, n); a row outside v is not one of v's entries (-1).
MiddleRows(v, start, n) ==
    [k \in 1..n |-> IF start + k \in DOMAIN v THEN v[start + k] ELSE -1]
\* v.middleRows(start, n) = block
AssignMiddleRows(v, start, n, block) ==
    [k \in DOMAIN v |->
        IF start < k /\ k <= start + n THEN block[k - start] ELSE v[k]]

RECURSIVE total_count_state(_)
total_count_state(list) ==
    IF list = <<>> THEN 0
    ELSE total_count_state(SubSeq(list, 1, Len(list) - 1))
         + SubVariableSize(list[Len(list)])
RECURSIVE total_count_control(_)
total_count_control(list) ==
    IF list = <<>> THEN 0
    ELSE total_count_control(SubSeq(list, 1, Len(list) - 1))
         + SubControlSize(list[Len(list)])
RECURSIVE total_count_randoms(_)
total_count_randoms(list) ==
    IF list = <<>> THEN 0
    ELSE total_count_randoms(SubSeq(list, 1, Len(list) - 1))
         + SubRandomsSize(list[Len(list)])

variableSize == total_count_state(process_models_)
randomsSize == total_count_randoms(process_models_)
controlSize == total_count_control(process_models_)

\* A vector of n entries, told apart by their row and by the tag b.
Vector(n, b) == [j \in 1..n |-> 10 * b + j]
Uninitialized == [model |-> 0, row |-> 0, randoms |-> <<>>, given |-> NotConditioned]

NoCall == [op |-> "none", i |-> 0, index |-> 0, index2 |-> 0,
           delta_time |-> 0, arg |-> <<>>, arg2 |-> <<>>, variables |-> <<>>,
           models |-> <<>>, sizes |-> <<0, 0, 0>>]

\* mapFromGaussian, lines 95-98: variables(variableSize()), both offsets 0.
CallMapFromGaussian(randoms) ==
    /\ cpc = "idle" /\ cCalls < MaxComposedCalls
    /\ cCalls' = cCalls + 1
    /\ cpc' = "mapFromGaussian"
    /\ cframe' = [NoCall EXCEPT !.op = "mapFromGaussian", !.i = 0,
                     !.arg = randoms,
                     !.variables = [k \in 1..variableSize |-> Uninitialized],
                     !.models = process_models_,
                     !.sizes = <<variableSize, randomsSize, controlSize>>]
    /\ UNCHANGED <<process_models_, cond, cret, clog>>

\* (variant: the offset into randoms advances by the size of the variable)
MapRandomIndexByVariable(random_index, m) == random_index + SubVariableSize(m)
\* line 104: random_index += process_models_[i]->randomsSize()
MapRandomIndex(random_index, m) == random_index + SubRandomsSize(m)

\* mapFromGaussian, lines 99-105: one iteration of the loop.
MapFromGaussianIteration ==
    /\ cpc = "mapFromGaussian" /\ cframe.i < Len(process_models_)
    /\ LET m == process_models_[cframe.i + 1]
           variable_index == cframe.index
           random_index == cframe.index2
       IN  cframe' = [cframe EXCEPT
              !.variables = AssignMiddleRows(@, variable_index, SubVariableSize(m),
                                SubMapFromGaussian(m, cond[m],
                                    MiddleRows(cframe.arg, random_index,
                                               SubRandomsSize(m)))),
              !.index = variable_index + SubVariableSize(m),
              !.index2 = MapRandomIndex(random_index, m),
              !.i = @ + 1]
    /\ UNCHANGED <<process_models_, cond, cpc, cret, clog, cCalls>>

\* mapFromGaussian, line 106: return variables.
MapFromGaussianReturn ==
    /\ cpc = "mapFromGaussian" /\ cframe.i >= Len(process_models_)
    /\ cret' = cframe
    /\ cframe' = NoCall
    /\ cpc' = "idle"
    /\ UNCHANGED <<process_models_, cond, clog, cCalls>>

\* conditionals, lines 115-116: both offsets 0.
CallConditionals(delta_time, state, control) ==
    /\ cpc = "idle" /\ cCalls < MaxComposedCalls
    /\ cCalls' = cCalls + 1
    /\ cpc' = "conditionals"
    /\ cframe' = [NoCall EXCEPT !.op = "conditionals", !.i = 0,
                     !.delta_time = delta_time, !.arg = state, !.arg2 = control,
                     !.models = process_models_,
                     !.sizes = <<variableSize, randomsSize, controlSize>>]
    /\ clog' = <<>>
    /\ UNCHANGED <<process_models_, cond, cret>>

\* (variant: the offset into control advances by the size of the state)
CondControlIndexByVariable(control_index, m) == control_index + SubVariableSize(m)
\* line 124: control_index += process_models_[i]->controlSize()
CondControlIndex(control_index, m) == control_index + SubControlSize(m)

\* conditionals, lines 117-125: one iteration of the loop.
ConditionalsIteration ==
    /\ cpc = "conditionals" /\ cframe.i < Len(process_models_)
    /\ LET m == process_models_[cframe.i + 1]
           state_index == cframe.index
           control_index == cframe.index2
           given == [delta_time |-> cframe.delta_time,
                     state |-> MiddleRows(cframe.arg, state_index,
                                          SubVariableSize(m)),
                     control |-> MiddleRows(cframe.arg2, control_index,
                                            SubControlSize(m))]
       IN  /\ cond' = [cond EXCEPT ![m] = given]
           /\ clog' = Append(clog, [entry |-> cframe.i + 1, model |-> m,
                                    given |-> given])
           /\ cframe' = [cframe EXCEPT
                  !.index = state_index + SubVariableSize(m),
                  !.index2 = CondControlIndex(control_index, m),
                  !.i = @ + 1]
    /\ UNCHANGED <<process_models_, cpc, cret, cCalls>>

\* conditionals, line 126: the loop is over.
ConditionalsReturn ==
    /\ cpc = "conditionals" /\ cframe.i >= Len(process_models_)
    /\ cret' = cframe
    /\ cframe' = NoCall
    /\ cpc' = "idle"
    /\ UNCHANGED <<process_models_, cond, clog, cCalls>>

Lists == UNION {[1..n -> SubModels] : n \in 0..MaxList}

\* ComposedStationaryProcessModel(process_models), lines 86-89.
ComposedInit ==
    /\ process_models_ \in Lists
    /\ cond = [m \in SubModels |-> NotConditioned]
    /\ cpc = "idle"
    /\ cframe = NoCall
    /\ cret = NoCall
    /\ clog = <<>>
    /\ cCalls = 0
\* A composed model that nothing calls.
ComposedIdle == ComposedInit /\ process_models_ = <<>>

ComposedNext ==
    \/ \E b \in {1, 2} : CallMapFromGaussian(Vector(randomsSize, b))
    \/ MapFromGaussianIteration
    \/ MapFromGaussianReturn
    \/ \E dt \in {1, 2}, b \in {1, 2} :
          CallConditionals(dt, Vector(variableSize, b), Vector(controlSize, 3 - b))
    \/ ConditionalsIteration
    \/ ConditionalsReturn

(***************************************************************************)
(* The single-threaded program: every call runs to completion before the   *)
(* next operation starts.  It holds two filters, built from the same       *)
(* models, and one belief per filter.                                      *)
(***************************************************************************)
FilterInit == Constructed /\ target = [c \in Callers |-> c]

Start == AllIdle /\ ops < MaxOps

FilterNext ==
    \/ \E c \in Callers, u \in Inputs :
          \/ \E b \in PriorBeliefs : Start /\ CallPredict(c, b, u, FALSE)
          \/ Start /\ Chained(c) /\ CallPredict(c, result[c].belief, u, TRUE)
    \/ \E c \in Callers, y \in Obsrvs :
          \/ \E b \in PriorBeliefs : Start /\ CallUpdate(c, b, y, FALSE)
          \/ Start /\ Chained(c) /\ CallUpdate(c, result[c].belief, y, TRUE)
    \/ \E c \in Callers : Integrate(c)
    \/ \E c \in Callers : Parameters(c)
    \/ \E c \in Callers : Feature(c)
    \/ \E c \in Callers : Delegate(c)
    \/ \E v \in {1, 2} : Start /\ CallerSetsParameter(v)
    \/ \E f \in Filters, v \in {1, 2} : Start /\ AccessorSetsParameter(f, v)

Init == FilterInit /\ PfIdle /\ ComposedIdle
Next == FilterNext /\ UNCHANGED <<pvars, cvars>>
Spec == Init /\ [][Next]_vars

(***************************************************************************)
(* Two threads calling concurrently, each on its own filter instance or    *)
(* both on filter 1; the statements of their calls interleave.             *)
(***************************************************************************)
ThreadsInit ==
    /\ Constructed
    /\ target \in {[c \in Callers |-> c], [c \in Callers |-> 1]}

ThreadsNext ==
    \/ \E c \in Callers, u \in Inputs, b \in PriorBeliefs :
          ops < MaxThreadCalls /\ CallPredict(c, b, u, FALSE)
    \/ \E c \in Callers, y \in Obsrvs, b \in PriorBeliefs :
          ops < MaxThreadCalls /\ CallUpdate(c, b, y, FALSE)
    \/ \E c \in Callers : Integrate(c)
    \/ \E c \in Callers : Parameters(c)
    \/ \E c \in Callers : Feature(c)
    \/ \E c \in Callers : Delegate(c)

InitThreads == ThreadsInit /\ PfIdle /\ ComposedIdle
NextThreads == ThreadsNext /\ UNCHANGED <<pvars, cvars>>
SpecThreads == InitThreads /\ [][NextThreads]_vars

(***************************************************************************)
(* Properties of RobustGaussianFilter.                                     *)
(***************************************************************************)
UpdateOrder == <<"integrate", "parameters", "feature", "delegate">>
IsPrefix(s, t) == Len(s) <= Len(t) /\ \A i \in 1..Len(s) : s[i] = t[i]
Done(c, op) == pc[c] = "idle" /\ hist[c].op = op

\* The calibration an update derives from its own arguments.
OwnParams(c) ==
    Params(IntegrateMoments(hist[c].model, hist[c].prior), hist[c].prior.mean)
\* The posterior of an update whose transform reads the parameters pT and
\* whose delegated update reads the parameters pD.
PosteriorWith(c, pT, pD, old) ==
    GaussianUpdate(FeatureModel(hist[c].model, pD), hist[c].prior,
                   FeatureObsrv(hist[c].model, pT, hist[c].arg), old)
\* The posterior the call produces when nothing else runs.
AlonePosterior(c, old) == PosteriorWith(c, OwnParams(c), OwnParams(c), old)
SameOutcome(r, q) ==
    r.status = q.status /\ (r.status = "ok" => r.belief = q.belief)

\* C1: every update runs integrate, parameters, feature transform, delegated
\* update in this order: the steps taken so far are a prefix of that order,
\* the parameters are written once, from the body distribution of this call
\* and the predicted mean, before the transform, and the transform is
\* computed before the delegated update.
C1_UpdateStepOrder ==
    \A c \in Callers : hist[c].op = "update" =>
        LET st == hist[c].steps IN
        /\ IsPrefix(st, UpdateOrder)
        /\ pc[c] = "idle" => st = UpdateOrder
        /\ pc[c] # "idle" => pc[c] = UpdateOrder[Len(st) + 1]
        /\ Cardinality({i \in DOMAIN st : st[i] = "parameters"}) <= 1
        /\ pc[c] \in {"parameters", "feature", "delegate"} =>
              frame[c].body = IntegrateMoments(hist[c].model, hist[c].prior)
        /\ pc[c] \in {"feature", "delegate"} =>
              feature_parameters(target[c]) = OwnParams(c)
        /\ pc[c] = "delegate" =>
              frame[c].fobs = FeatureObsrv(hist[c].model, OwnParams(c), hist[c].arg)
        /\ pc[c] = "idle" => SameOutcome(result[c], AlonePosterior(c, result[c]))

\* An update has completed all four steps and its write changed the parameters.
C1_Witness ==
    \E c \in Callers :
        /\ Done(c, "update") /\ hist[c].steps = UpdateOrder
        /\ result[c].status = "ok"
        /\ hist[c].before # OwnParams(c)
        /\ feature_parameters(target[c]) = OwnParams(c)

\* C2: two filters with identical models and different call histories give
\* the same outcome for the same following call: what earlier updates left
\* in the feature model does not show in a later predict or update.
C2_SelfContained ==
    \A c, d \in Callers :
        (/\ pc[c] = "idle" /\ pc[d] = "idle"
         /\ hist[c].op # "none" /\ hist[c].op = hist[d].op
         /\ hist[c].prior = hist[d].prior /\ hist[c].arg = hist[d].arg
         /\ hist[c].model = hist[d].model /\ hist[c].pmodel = hist[d].pmodel)
        => SameOutcome(result[c], result[d])

\* Two filters were left with different calibrations by their histories, then
\* given the same update of a robust model, and agree.
C2_Witness ==
    \E c, d \in Callers :
        /\ c # d /\ Done(c, "update") /\ Done(d, "update")
        /\ hist[c].prior = hist[d].prior /\ hist[c].arg = hist[d].arg
        /\ hist[c].model = hist[d].model /\ hist[c].model.tail # 0
        /\ hist[c].before # hist[d].before
        /\ result[c].status = "ok" /\ result[c] = result[d]
        /\ result[c] # PosteriorWith(c, hist[c].before, hist[c].before, result[c])

\* C3: with a feature model that has no tail (identity transform, raw noise)
\* every sequence of calls gives the beliefs the unwrapped engine gives.
C3_NoTailIsUnwrapped ==
    \A c \in Callers :
        (pc[c] = "idle" /\ hist[c].op # "none" /\ hist[c].model.tail = 0)
        => result[c] = hist[c].ref

\* A predict and then an update on its output, on a model without tail.
C3_Witness ==
    \E c \in Callers :
        /\ Done(c, "update") /\ hist[c].model.tail = 0
        /\ result[c].status = "ok" /\ result[c] = hist[c].ref
        /\ hist[c].prior \notin PriorBeliefs
        /\ result[c].belief # hist[c].prior

\* A step that is a call of predict by caller c.
PredictStep(c) ==
    /\ ops' = ops + 1 /\ pc[c] = "idle" /\ pc'[c] = "idle"
    /\ obsrvObj' = obsrvObj /\ processObj' = processObj
    /\ hist'[c].op = "predict"
    /\ \A d \in Callers \ {c} : hist'[d] = hist[d] /\ result'[d] = result[d]

\* C4: predict returns what the wrapped filter's predict returns and leaves
\* the calibration parameters alone; only the parameter step of update
\* writes them.
C4_PredictTransparent ==
    [][/\ \A c \in Callers : PredictStep(c) =>
            /\ featParams' = featParams
            /\ result'[c] = Ok(GaussianPredict(hist'[c].pmodel, hist'[c].prior,
                                               hist'[c].arg.val))
       /\ featParams' # featParams =>
            \E c \in Callers : pc[c] = "parameters" /\ pc'[c] # "parameters"
      ]_vars

\* A predict ran on a filter calibrated by an earlier update.
C4_Witness ==
    \E c \in Callers :
        /\ Done(c, "predict")
        /\ hist[c].before # InitialParams
        /\ feature_parameters(target[c]) = hist[c].before
        /\ result[c] = Ok(GaussianPredict(hist[c].pmodel, hist[c].prior,
                                          hist[c].arg.val))

\* C5: with one filter instance per thread, every update gives the posterior
\* it gives when run alone, however the threads' steps interleave.
C5_InstancesIndependent ==
    (target[1] # target[2]) =>
        \A c \in Callers :
            /\ Done(c, "update") => result[c] = AlonePosterior(c, result[c])
            /\ hist[c].foreign = {}

\* An update on a robust model ran while the other instance set its own,
\* different, parameters, and produced its alone posterior.
C5_Witness ==
    \E c \in Callers :
        /\ target[1] # target[2]
        /\ Done(c, "update") /\ hist[c].overlapped
        /\ hist[c].model.tail # 0 /\ result[c].status = "ok"
        /\ featParams[1] # featParams[2]
        /\ result[c] = AlonePosterior(c, result[c])

\* C6: an update deviates from its alone posterior only when both threads
\* use one feature model and the other thread set the parameters between
\* this call's parameter step and its delegated update; the posterior is
\* then computed with parameters of the other call.
C6_SharedModelRace ==
    \A c \in Callers : Done(c, "update") =>
        /\ result[c] # AlonePosterior(c, result[c]) =>
              target[1] = target[2] /\ hist[c].foreign # {}
        /\ \E pT, pD \in {OwnParams(c)} \cup hist[c].foreign :
              result[c] = PosteriorWith(c, pT, pD, result[c])

\* The state the claim describes: the posterior of one call was computed
\* with the calibration of the other call and is not its alone posterior.
C6_Witness ==
    \E c \in Callers :
        /\ target[1] = target[2]
        /\ Done(c, "update") /\ result[c].status = "ok"
        /\ result[c] # AlonePosterior(c, result[c])
        /\ \E p \in hist[c].foreign :
              p # OwnParams(c) /\ result[c] = PosteriorWith(c, p, p, result[c])

\* C7 (as claimed): an update with an observation of the wrong length is
\* rejected with the dimension-mismatch error before the calibration
\* parameters are modified.
C7_MismatchRejectedBeforeWrite ==
    \A c \in Callers :
        (hist[c].op = "update" /\ hist[c].arg.len # hist[c].model.dim) =>
            /\ feature_parameters(target[c]) = hist[c].before
            /\ pc[c] = "idle" => result[c].status = "DimensionMismatch"

\* C8 (as claimed): the models a filter uses are the caller's instances, so
\* a filter whose accessors were not used to change them has the parameters
\* the caller's instances have now.
C8_FilterUsesCallersInstance ==
    \A f \in Filters : f \notin touched =>
        /\ obsrv_model(f) = obsrvObj[Caller]
        /\ process_model(f) = processObj[Caller]

\* C8 (amended): a filter holds its own copies of the models, made at
\* construction: until they are changed through the filter's accessors they
\* keep the construction-time values whatever the caller sets on its own
\* instances, and the filter's calls compute with them.
C8_FilterKeepsItsCopies ==
    \A f \in Filters : f \notin touched =>
        /\ obsrv_model(f) = CallersObsrvModel(obsrvObj[Caller].tail)
        /\ process_model(f) = CallersProcessModel
        /\ \A c \in Callers : (target[c] = f /\ Done(c, "predict")) =>
              result[c] = Ok(GaussianPredict(CallersProcessModel, hist[c].prior,
                                             hist[c].arg.val))
        /\ \A c \in Callers : (target[c] = f /\ Done(c, "update")) =>
              /\ hist[c].model = CallersObsrvModel(obsrvObj[Caller].tail)
              /\ SameOutcome(result[c], AlonePosterior(c, result[c]))

\* The caller changed its own models after construction and a filter then
\* completed an update with the construction-time values.
C8_Witness ==
    \E c \in Callers :
        /\ target[c] \notin touched
        /\ obsrvObj[Caller] # CallersObsrvModel(obsrvObj[Caller].tail)
        /\ Done(c, "update") /\ result[c].status = "ok"
        /\ hist[c].model = CallersObsrvModel(obsrvObj[Caller].tail)
        /\ result[c] = AlonePosterior(c, result[c])

(***************************************************************************)
(* The particle filter on its own.                                         *)
(***************************************************************************)
InitParticles == FilterInit /\ PfInit /\ ComposedIdle
NextParticles == PfNext /\ UNCHANGED <<rvars, cvars>>
SpecParticles == InitParticles /\ [][NextParticles]_vars

Weights(ps) == [i \in DOMAIN ps |-> ps[i].w]

\* C9: after every update on a non-degenerate likelihood the weights are
\* non-negative and sum to 1 and the number of particles is unchanged, also
\* when the update resampled; predict leaves every weight as it was.
C9_WeightsNormalized ==
    /\ (pfLast.op = "update" /\ pfStatus = "ok") =>
          /\ \A i \in DOMAIN particles : particles[i].w[1] >= 0
          /\ Total(particles) = RInt(1)
          /\ Len(particles) = Len(pfLast.before)
    /\ pfLast.op = "predict" =>
          /\ Len(particles) = Len(pfLast.before)
          /\ Weights(particles) = Weights(pfLast.before)

\* An update resampled a belief whose weights an earlier update had made
\* unequal: the count is kept and the weights are uniform again.
C9_Witness ==
    /\ pfLast.op = "update" /\ pfStatus = "ok" /\ pfLast.resampled
    /\ \E i, j \in DOMAIN pfLast.before : pfLast.before[i].w # pfLast.before[j].w
    /\ Len(particles) = NumParticles
    /\ \A i \in DOMAIN particles : particles[i].w = Rat(1, NumParticles)

(***************************************************************************)
(* The composed process model on its own.                                  *)
(***************************************************************************)
InitComposed == FilterInit /\ PfIdle /\ ComposedInit
NextComposed == ComposedNext /\ UNCHANGED <<rvars, pvars>>
SpecComposed == InitComposed /\ [][NextComposed]_vars

\* The sizes of the first i entries of the list, added up.
RECURSIVE VariableOffset(_)
VariableOffset(i) ==
    IF i = 0 THEN 0
    ELSE SubVariableSize(process_models_[i]) + VariableOffset(i - 1)
RECURSIVE RandomsOffset(_)
RandomsOffset(i) ==
    IF i = 0 THEN 0
    ELSE SubRandomsSize(process_models_[i]) + RandomsOffset(i - 1)
RECURSIVE ControlOffset(_)
ControlOffset(i) ==
    IF i = 0 THEN 0
    ELSE SubControlSize(process_models_[i]) + ControlOffset(i - 1)

Entries == 1..Len(process_models_)
\* Block i of the randoms of a call, and what entry i makes of it.
RandomsBlock(randoms, i) ==
    [k \in 1..SubRandomsSize(process_models_[i]) |-> randoms[RandomsOffset(i - 1) + k]]
MappedBlock(randoms, i) ==
    SubMapFromGaussian(process_models_[i], cond[process_models_[i]],
                       RandomsBlock(randoms, i))
\* Every row of a vector of the given size lies in exactly one block.
Partitioned(size, Offset(_)) ==
    \A row \in 1..size :
        Cardinality({i \in Entries : Offset(i - 1) < row /\ row <= Offset(i)}) = 1

\* C11: mapFromGaussian returns a vector of variableSize() entries, the sum
\* of the sub-models' variableSize(), that is the concatenation in list order
\* of every sub-model's mapFromGaussian of its own block of randoms.  Block i
\* of the output starts at the sum of variableSize() of the entries before
\* i; block i of randoms starts at the sum of their randomsSize() and has
\* randomsSize() of entry i rows.  The blocks are disjoint and contiguous, at
\* loop exit the offsets are variableSize() and randomsSize(), and an empty
\* list gives sizes 0 and an empty vector.
C11_MapFromGaussianConcatenates ==
    /\ variableSize = VariableOffset(Len(process_models_))
    /\ randomsSize = RandomsOffset(Len(process_models_))
    /\ Partitioned(variableSize, VariableOffset)
    /\ Partitioned(randomsSize, RandomsOffset)
    /\ process_models_ = <<>> => variableSize = 0 /\ randomsSize = 0
    /\ cpc = "mapFromGaussian" =>
          /\ Len(cframe.arg) = randomsSize
          /\ Len(cframe.variables) = variableSize
          /\ cframe.index = VariableOffset(cframe.i)
          /\ cframe.index2 = RandomsOffset(cframe.i)
          /\ \A i \in 1..cframe.i :
                \A k \in 1..SubVariableSize(process_models_[i]) :
                    cframe.variables[VariableOffset(i - 1) + k]
                        = MappedBlock(cframe.arg, i)[k]
          /\ cframe.i = Len(process_models_) =>
                /\ cframe.index = variableSize
                /\ cframe.index2 = randomsSize
    /\ cret.op = "mapFromGaussian" =>
          /\ Len(cret.variables) = variableSize
          /\ cret.index = variableSize /\ cret.index2 = randomsSize
          /\ process_models_ = <<>> => cret.variables = <<>>
          /\ \A i \in Entries :
                \A k \in 1..SubVariableSize(process_models_[i]) :
                    LET out == cret.variables[VariableOffset(i - 1) + k]
                    IN  /\ out.model = process_models_[i]
                        /\ out.row = k
                        /\ out.randoms = RandomsBlock(cret.arg, i)

\* mapFromGaussian has returned for a list of two different sub-models whose
\* blocks of randoms and of variables have different, non-zero sizes.
C11_Witness ==
    /\ cpc = "idle" /\ cret.op = "mapFromGaussian"
    /\ Len(process_models_) = 2
    /\ process_models_[1] # process_models_[2]
    /\ \A i \in Entries :
          /\ SubVariableSize(process_models_[i]) > 0
          /\ SubRandomsSize(process_models_[i]) > 0
    /\ SubVariableSize(process_models_[1]) # SubRandomsSize(process_models_[1])

\* The slices of the arguments of a conditionals call that belong to entry i.
OwnSlice(call, i) ==
    [delta_time |-> call.delta_time,
     state |-> [k \in 1..SubVariableSize(process_models_[i]) |->
                   call.arg[VariableOffset(i - 1) + k]],
     control |-> [k \in 1..SubControlSize(process_models_[i]) |->
                   call.arg2[ControlOffset(i - 1) + k]]]
\* The calls of sub-models' conditionals made by the time the loop has gone
\* through the first n entries.
LoggedUpTo(call, n) ==
    /\ Len(clog) = n
    /\ \A i \in 1..n :
          clog[i] = [entry |-> i, model |-> process_models_[i],
                     given |-> OwnSlice(call, i)]
Occurrences(m) == {i \in Entries : process_models_[i] = m}
LastOccurrence(m) == CHOOSE i \in Occurrences(m) : \A j \in Occurrences(m) : j <= i
DistinctEntries == \A i, j \in Entries : process_models_[i] = process_models_[j] => i = j

\* C12: conditionals calls conditionals exactly once on each list entry, in
\* list order, with the same delta_time and with that entry's own contiguous
\* slice of state (offset: the sum of variableSize() of earlier entries) and
\* of control (offset: the sum of controlSize() of earlier entries).  The
\* list and the sizes of the composed model are as they were.  When the
\* entries are distinct objects every sub-model is left conditioned on its
\* own slice; an object that is in the list twice is left conditioned on
\* the slice of its last occurrence.
C12_ConditionalsSlices ==
    /\ controlSize = ControlOffset(Len(process_models_))
    /\ Partitioned(controlSize, ControlOffset)
    /\ cpc = "conditionals" =>
          /\ Len(cframe.arg) = variableSize /\ Len(cframe.arg2) = controlSize
          /\ cframe.index = VariableOffset(cframe.i)
          /\ cframe.index2 = ControlOffset(cframe.i)
          /\ LoggedUpTo(cframe, cframe.i)
    /\ cpc = "idle" /\ cret.op = "conditionals" =>
          /\ LoggedUpTo(cret, Len(process_models_))
          /\ cret.index = variableSize /\ cret.index2 = controlSize
          /\ cret.models = process_models_
          /\ cret.sizes = <<variableSize, randomsSize, controlSize>>
          /\ \A m \in SubModels :
                IF Occurrences(m) = {} THEN cond[m] = NotConditioned
                ELSE cond[m] = OwnSlice(cret, LastOccurrence(m))
          /\ DistinctEntries =>
                \A i \in Entries : cond[process_models_[i]] = OwnSlice(cret, i)

\* conditionals has returned for a list that holds one object twice: the
\* object is conditioned on the slice of its second entry, which is not the
\* slice of its first.
C12_Witness ==
    /\ cpc = "idle" /\ cret.op = "conditionals"
    /\ Len(process_models_) = 2
    /\ process_models_[1] = process_models_[2]
    /\ Len(clog) = 2
    /\ cond[process_models_[1]] = clog[2].given
    /\ clog[1].given.state # clog[2].given.state
    /\ clog[1].given.control # clog[2].given.control

====
